---- MODULE Spec2Model ----
(***************************************************************************)
(* Model of the fl-studio-mcp command/response round trip.                 *)
(*                                                                         *)
(* Server side : src/src/fl_studio_mcp/utils/midi_connection.py            *)
(*               (MIDIConnection, get_connection, reset_connection)        *)
(* DAW side    : src/fl_controller/device_FLStudioMCP.py                   *)
(*               (OnMidiMsg, execute_pending_command, write_response,      *)
(*                dispatch_command)                                        *)
(*                                                                         *)
(* The two sides share mcp_command.json, mcp_response.json and the MIDI    *)
(* port.  Time is counted in poll intervals (poll_interval = 0.02 s).      *)
(* Path.write_text opens the file with mode "w" (which truncates it) and   *)
(* writes the data afterwards, so a write is two steps and the other side  *)
(* can see the empty file in between.  unlink of an existing file and      *)
(* read_text of an existing file are taken to succeed.                     *)
(***************************************************************************)
EXTENDS Integers, Sequences, FiniteSets, TLC

(***************************************************************************)
(* Bounds of the model.                                                    *)
(***************************************************************************)
\* largest timeout argument, in poll intervals
MaxTimeout == 2
\* number of send_command calls in one behaviour
MaxCalls == 2

\* caller threads; the serialized specifications use caller 1 only
Callers == {1, 2}

(***************************************************************************)
(* Python values.                                                          *)
(***************************************************************************)
\* None where a string is expected (_port, _port_name, _error, "error")
None == "<None>"
\* None as the params argument of send_command
NoParams == [none |-> TRUE]
EmptyDict == [k \in {} |-> TRUE]

\* {**a, **b}: the keys of b override those of a
Merge(a, b) == [k \in DOMAIN a \cup DOMAIN b |-> IF k \in DOMAIN b THEN b[k] ELSE a[k]]

\* dict.get(key, default)
Get(d, key, default) == IF key \in DOMAIN d THEN d[key] ELSE default

\* A file is <<>> when it does not exist and <<text>> when it does.
Absent == <<>>
File(text) == <<text>>
Exists(f) == f # Absent

\* a dumps that leaves the "params" key out
dumps_without_params(obj) == [json |-> [k \in DOMAIN obj \ {"params"} |-> obj[k]]]

\* json.dumps(obj): the text of a JSON object
dumps(obj) == [json |-> obj]
\* the content of a file that was opened for writing and not yet written
EmptyText == [empty |-> TRUE]
\* json.loads succeeds exactly on the texts json.dumps produced
IsJSON(text) == "json" \in DOMAIN text
loads(text) == text.json

(***************************************************************************)
(* MIDI messages.                                                          *)
(***************************************************************************)
TRIGGER_NOTE == 127
NOTE_ON == 144
\* mido.Message("note_on", note=self.TRIGGER_NOTE, velocity=127)
trigger_msg == [midiId |-> NOTE_ON, data1 |-> TRIGGER_NOTE, data2 |-> 127]

(***************************************************************************)
(* Arguments of send_command.                                              *)
(***************************************************************************)
KnownActions == {"transport.setPlaybackSpeed"}
Actions == KnownActions \cup {"bogus.action"}
ParamsArgs == {NoParams, [speed |-> 2]}
Timeouts == 0..MaxTimeout

\* a variant that writes params as given
command_as_given(action, params) == [action |-> action, params |-> params]

\* command = {"action": action, "params": params or {}}
command(action, params) ==
    [action |-> action,
     params |-> IF params = NoParams \/ params = EmptyDict THEN EmptyDict ELSE params]

(***************************************************************************)
(* Error texts.                                                            *)
(***************************************************************************)
MidoMissingMsg == "mido library not installed. Install with: pip install mido python-rtmidi"
GetPortsFailedMsg == "Failed to get MIDI ports: <exception>"
NoPortsMsg == "No MIDI output ports found. On Mac, enable IAC Driver in Audio MIDI Setup."
OpenFailedMsg(target) == "Failed to open MIDI port '" \o target \o "': <exception>"
WriteFailedMsg == "Failed to write command file: <exception>"
TriggerFailedMsg == "Failed to send MIDI trigger: <exception>"
InvalidJSONMsg == "Invalid JSON in response: <exception>"
TimeoutMsg(timeout) ==
    "Timeout waiting for FL Studio response after " \o ToString(timeout) \o "s. "
    \o "Make sure FL Studio is running and the MCP controller is enabled in MIDI Settings."
NoCommandFileMsg == "No command file found"
InvalidCommandMsg == "Invalid JSON in command file: <exception>"
ExecErrorMsg == "Error executing command: <exception>"
UnknownActionMsg(action) == "Unknown action: " \o action

Failed(msg) == [success |-> FALSE, error |-> msg]

\* what a call hands to its caller
NoResult == <<>>
Returned(response) == <<"return", response>>
Raised(msg) == <<"raise", [type |-> "RuntimeError", message |-> msg]>>

(***************************************************************************)
(* MIDIConnection.connect: port selection and the connect attempt.         *)
(***************************************************************************)
PortNames == {"IAC Driver Bus 1", "loopMIDI Port", "USB Synth"}
\* "IAC" in port_name
HasIAC(port_name) == port_name = "IAC Driver Bus 1"
\* "loopMIDI" in port_name or "FL" in port_name.upper()
HasLoopOrFL(port_name) == port_name = "loopMIDI Port"

\* most ports mido.get_output_names() lists
MaxPorts == 2
PortLists ==
    {ports \in UNION {[1..n -> PortNames] : n \in 0..MaxPorts} :
        \A i, j \in DOMAIN ports : i # j => ports[i] # ports[j]}

\* what the machine offers to one connect attempt: whether mido can be
\* imported, whether get_output_names() works and what it lists, whether
\* open_output() works
ConnectEnvs ==
    {[mido |-> FALSE, names_ok |-> TRUE, ports |-> <<>>, open_ok |-> TRUE],
     [mido |-> TRUE, names_ok |-> FALSE, ports |-> <<>>, open_ok |-> TRUE]}
    \cup [mido : {TRUE}, names_ok : {TRUE}, ports : PortLists, open_ok : BOOLEAN]

\* the for loop of connect: the first port that matches either test, else
\* the first port
target_port(output_ports) ==
    LET matching == {i \in DOMAIN output_ports :
                        HasIAC(output_ports[i]) \/ HasLoopOrFL(output_ports[i])}
    IN  IF matching = {} THEN output_ports[1]
        ELSE output_ports[CHOOSE i \in matching : \A j \in matching : i <= j]

\* the fields of a MIDIConnection after __init__
NewConn == [connected |-> FALSE, port |-> None, port_name |-> None, error |-> None]

is_connected(conn) == conn.connected /\ conn.port # None

\* a connect() that opens a port whether or not one is held
connect_again(conn, env) ==
    IF ~env.mido THEN [conn EXCEPT !.error = MidoMissingMsg]
    ELSE IF ~env.names_ok THEN [conn EXCEPT !.error = GetPortsFailedMsg]
    ELSE IF env.ports = <<>> THEN [conn EXCEPT !.error = NoPortsMsg]
    ELSE IF env.open_ok
         THEN [connected |-> TRUE, port |-> target_port(env.ports),
               port_name |-> target_port(env.ports), error |-> None]
         ELSE [conn EXCEPT !.error = OpenFailedMsg(target_port(env.ports))]

\* connect(): the fields afterwards
connect(conn, env) ==
    IF conn.connected /\ conn.port # None THEN conn
    ELSE IF ~env.mido THEN [conn EXCEPT !.error = MidoMissingMsg]
    ELSE IF ~env.names_ok THEN [conn EXCEPT !.error = GetPortsFailedMsg]
    ELSE IF env.ports = <<>> THEN [conn EXCEPT !.error = NoPortsMsg]
    ELSE IF env.open_ok
         THEN [connected |-> TRUE, port |-> target_port(env.ports),
               port_name |-> target_port(env.ports), error |-> None]
         ELSE [conn EXCEPT !.error = OpenFailedMsg(target_port(env.ports))]

\* a variant that connects again on every call
ensure_connected_always(conn, env) == connect([conn EXCEPT !.connected = FALSE], env)

\* ensure_connected(): connect only when not connected
ensure_connected(conn, env) == IF ~is_connected(conn) THEN connect(conn, env) ELSE conn

\* a disconnect that forgets to lower the flag
disconnect_keeps_flag(conn) == [conn EXCEPT !.port = None, !.port_name = None]

\* disconnect(): the fields afterwards
disconnect(conn) == [conn EXCEPT !.port = None, !.connected = FALSE, !.port_name = None]

\* connect() gets as far as mido.open_output(target_port) and it succeeds
opens_port(conn, env) ==
    /\ ~(conn.connected /\ conn.port # None)
    /\ env.mido /\ env.names_ok /\ env.ports # <<>> /\ env.open_ok

\* a disconnect that leaves the port open
closes_port_never(conn) == FALSE

\* disconnect(): if self._port: self._port.close()
closes_port(conn) == conn.port # None

\* a get_connection() whose new instance opens the first port itself
get_connection_connects(exists, conn) ==
    IF exists THEN conn
    ELSE [NewConn EXCEPT !.connected = TRUE, !.port = "USB Synth", !.port_name = "USB Synth"]

\* get_connection(): the instance behind the module-level _connection,
\* built by MIDIConnection() when there is none
get_connection(exists, conn) == IF exists THEN conn ELSE NewConn

\* get_status(): the fields that tell about the connection
get_status(conn) ==
    [connected |-> is_connected(conn), port_name |-> conn.port_name, error |-> conn.error]

\* the texts fl_connect returns
ConnectedMsg == "Successfully connected to FL Studio via MIDI!"
ConnectionFailedMsg(error) == "Connection failed: " \o error

(***************************************************************************)
(* The DAW side: dispatch_command and execute_pending_command.             *)
(***************************************************************************)
\* a filter that does not look at the velocity
IsTrigger_any_velocity(event) == event.midiId = NOTE_ON /\ event.data1 = TRIGGER_NOTE

\* if event.midiId == 0x90 and event.data1 == TRIGGER_NOTE and event.data2 > 0
IsTrigger(event) == event.midiId = NOTE_ON /\ event.data1 = TRIGGER_NOTE /\ event.data2 > 0

\* dispatch_command: the dict the handler of the action returns
dispatch_command(action, params) ==
    IF action = "transport.setPlaybackSpeed" THEN [speed |-> Get(params, "speed", 1)]
    ELSE [error |-> UnknownActionMsg(action)]

\* execute_pending_command: the response dict it builds.  handler_raises:
\* the FL Studio API call of the handler raised.
pending_response(cmd_file, handler_raises) ==
    IF ~Exists(cmd_file) THEN Failed(NoCommandFileMsg)
    ELSE IF ~IsJSON(cmd_file[1]) THEN Failed(InvalidCommandMsg)
    ELSE LET cmd == loads(cmd_file[1])
             action == Get(cmd, "action", "")
             params == Get(cmd, "params", EmptyDict)
         IN  IF handler_raises /\ action \in KnownActions
             THEN Failed(ExecErrorMsg)
             ELSE Merge([success |-> TRUE], dispatch_command(action, params))

\* a variant that calls write_response inside the try block and again at
\* the end
execute_pending_command_twice(cmd_file, handler_raises) ==
    <<pending_response(cmd_file, handler_raises), pending_response(cmd_file, handler_raises)>>

\* execute_pending_command: the responses it hands to write_response, in
\* order; every path calls write_response once
execute_pending_command(cmd_file, handler_raises) ==
    <<pending_response(cmd_file, handler_raises)>>

(***************************************************************************)
(* The server side: pieces of send_command and _wait_for_response.         *)
(***************************************************************************)
\* a variant that never looks at the clock
PollContinues_forever(elapsed_time, timeout) == TRUE

\* while time.time() - start_time < timeout
PollContinues(elapsed_time, timeout) == elapsed_time < timeout

\* a variant whose message leaves out the timeout value
timeout_response_novalue(timeout) ==
    Failed("Timeout waiting for FL Studio response. "
           \o "Make sure FL Studio is running and the MCP controller is enabled in MIDI Settings.")

\* the dict returned when the loop ends
timeout_response(timeout) == Failed(TimeoutMsg(timeout))

\* except json.JSONDecodeError
invalid_response == Failed(InvalidJSONMsg)

\* a variant that carries on with the exchange after the failed write
after_write_failed_goes_on == "clear"

\* except Exception as e: return {"success": False, "error": ...}
after_write_failed == "done"

\* a clear that cannot go on when there is no file to delete
after_clear_strict(existed) == IF existed THEN "trigger" ELSE "done"

\* if self._response_file.exists(): try unlink, except pass: where the call
\* goes next
after_clear(existed) == "trigger"

\* a variant that waits for a response whether or not the trigger was sent
after_trigger_polls(sent) == "poll"

\* where send_command goes after the trigger: _wait_for_response when the
\* send worked, the except branch when it raised
after_trigger(sent) == IF sent THEN "poll" ELSE "done"

\* a variant that polls again when the content does not parse
after_read_retry(valid) == IF valid THEN "cleanup" ELSE "poll"

\* where _wait_for_response goes after read_text and json.loads: on to the
\* unlink and return response, or out through except json.JSONDecodeError
after_read(valid) == IF valid THEN "cleanup" ELSE "done"

\* a variant that leaves the file in place
unlink_keeps(file) == file

\* self._response_file.unlink()
unlink(file) == Absent

(***************************************************************************)
(* Hosts, directories and the keystroke trigger.                           *)
(***************************************************************************)
\* Path.home()
HomeDir == "<home>"
\* a machine: what platform.system() says and %USERPROFILE% (None: not set;
\* when it is set, Path.home() is its value)
Hosts ==
    {[system |-> "Darwin", userprofile |-> None],
     [system |-> "Linux", userprofile |-> None],
     [system |-> "Windows", userprofile |-> HomeDir],
     [system |-> "Windows", userprofile |-> None]}
\* sys.platform on the machine
sys_platform(h) ==
    IF h.system = "Darwin" THEN "darwin"
    ELSE IF h.system = "Windows" THEN "win32" ELSE "linux"

\* os.environ on the machine, as far as it is read
environ(h) == IF h.userprofile = None THEN EmptyDict ELSE [USERPROFILE |-> h.userprofile]

\* a path is the sequence of its parts
Unresolved == <<>>
SettingsDir == <<"Documents", "Image-Line", "FL Studio", "Settings">>

\* _get_fl_hardware_dir() of the server
get_fl_hardware_dir(h) ==
    LET base == IF h.system = "Darwin" THEN <<HomeDir>> \o SettingsDir
                ELSE IF h.system = "Windows" THEN <<HomeDir>> \o SettingsDir
                ELSE <<HomeDir, ".fl-studio", "Settings">>
    IN  base \o <<"Hardware", "FLStudioMCP">>

\* _get_script_dir() of the controller script
get_script_dir(h) ==
    LET base == IF sys_platform(h) = "darwin" THEN <<HomeDir>> \o SettingsDir
                ELSE IF sys_platform(h) = "win32"
                     THEN <<Get(environ(h), "USERPROFILE", "~")>> \o SettingsDir
                ELSE <<HomeDir>> \o SettingsDir
    IN  base \o <<"Hardware", "FLStudioMCP">>

\* FLStudioTrigger.is_supported: _setup_trigger found a strategy
is_supported(h) == h.system \in {"Darwin", "Windows"}
\* FLStudioTrigger.keystroke
keystroke(h) ==
    IF h.system = "Darwin" THEN "Cmd+Opt+Y"
    ELSE IF h.system = "Windows" THEN "Ctrl+Alt+Y" ELSE "Unknown"
\* FLStudioTrigger.trigger(): False without a strategy, else what the
\* strategy returns (sent)
trigger_fl_studio(h, sent) == is_supported(h) /\ sent

(***************************************************************************)
(* The piano-roll request queue: _write_request and the texts of the tools. *)
(***************************************************************************)
\* most entries the queue file holds
MaxQueue == 3

\* json.dump(existing, f): the text of a JSON array
dump_list(entries) == [json_list |-> entries]
\* a text json.load cannot parse
CorruptText == [corrupt |-> TRUE]
\* the text of a JSON value that is neither an array nor an object
OtherText == [json_other |-> 7]
IsListText(text) == "json_list" \in DOMAIN text

\* a reading that keeps an entry for a file it cannot parse
existing_entries_keeps_corrupt(f) ==
    IF ~Exists(f) THEN <<>>
    ELSE IF IsListText(f[1]) THEN f[1].json_list
    ELSE IF IsJSON(f[1]) THEN <<loads(f[1])>>
    ELSE <<[action |-> "unreadable"]>>

\* _write_request: the list existing after the file was read
existing_entries(f) ==
    IF ~Exists(f) THEN <<>>
    ELSE IF IsListText(f[1]) THEN f[1].json_list
    ELSE IF IsJSON(f[1]) THEN <<loads(f[1])>>
    ELSE <<>>

\* a _write_request that writes only what it was given
write_request_overwrites(f, request, is_list) ==
    File(dump_list(IF is_list THEN request ELSE <<request>>))

\* _write_request(request): the file afterwards; is_list is
\* isinstance(request, list).  An open or a json.dump that raises is not
\* modelled.
write_request(f, request, is_list) ==
    File(dump_list(IF is_list THEN existing_entries(f) \o request
                   ELSE Append(existing_entries(f), request)))

\* _clear_request_file(): the file afterwards
clear_request_file(f) == IF Exists(f) THEN unlink(f) ELSE f

\* _midi_to_note_name
NoteNames == <<"C", "C#", "D", "D#", "E", "F", "F#", "G", "G#", "A", "A#", "B">>
midi_to_note_name(midi) == NoteNames[(midi % 12) + 1] \o ToString((midi \div 12) - 1)

\* ", ".join(texts)
RECURSIVE Join(_)
Join(texts) ==
    IF texts = <<>> THEN ""
    ELSE IF Len(texts) = 1 THEN texts[1]
    ELSE texts[1] \o ", " \o Join(Tail(texts))

\* the arguments the tools are called with
DefaultVelocity == "0.8"
ChordTime == 0
ChordDuration == "1.0"
NotesArgs ==
    {<<>>,
     <<[midi |-> 60, duration |-> 1]>>,
     <<[midi |-> 60, duration |-> 1], [duration |-> 1]>>,
     <<[midi |-> 64]>>}
Modes == {"add", "replace", "overwrite"}
ChordArgs == {<<>>, <<60, 64>>}
DeleteArgs == {<<>>, <<[midi |-> 60, time |-> 0]>>}

\* a validation that asks for 'midi' only
send_notes_error_midi_only(notes) ==
    LET bad == {i \in DOMAIN notes : "midi" \notin DOMAIN notes[i]}
        first == CHOOSE i \in bad : \A j \in bad : i <= j
    IN  IF notes = <<>> THEN "Error: No notes provided"
        ELSE IF bad = {} THEN None
        ELSE "Error: Note " \o ToString(first - 1) \o " missing 'midi' field"

\* fl_send_notes: the validation loop; None when every note passes
send_notes_error(notes) ==
    LET bad == {i \in DOMAIN notes :
                   "midi" \notin DOMAIN notes[i] \/ "duration" \notin DOMAIN notes[i]}
        first == CHOOSE i \in bad : \A j \in bad : i <= j
    IN  IF notes = <<>> THEN "Error: No notes provided"
        ELSE IF bad = {} THEN None
        ELSE IF "midi" \notin DOMAIN notes[first]
             THEN "Error: Note " \o ToString(first - 1) \o " missing 'midi' field"
             ELSE "Error: Note " \o ToString(first - 1) \o " missing 'duration' field"

\* note.setdefault("time", 0); note.setdefault("velocity", 0.8)
with_defaults(notes) ==
    [i \in DOMAIN notes |-> Merge([time |-> 0, velocity |-> DefaultVelocity], notes[i])]

\* a replace mode that clears after adding
send_notes_requests_clear_last(notes, mode) ==
    <<[action |-> "add_notes", notes |-> with_defaults(notes)]>>
    \o (IF mode = "replace" THEN <<[action |-> "clear"]>> ELSE <<>>)

\* fl_send_notes: the list requests
send_notes_requests(notes, mode) ==
    (IF mode = "replace" THEN <<[action |-> "clear"]>> ELSE <<>>)
    \o <<[action |-> "add_notes", notes |-> with_defaults(notes)]>>

\* a replace mode that starts the queue afresh
queue_after_send_notes_afresh(f, notes, mode) ==
    IF mode = "replace" THEN File(dump_list(send_notes_requests(notes, mode)))
    ELSE write_request(f, send_notes_requests(notes, mode), TRUE)

\* fl_send_notes: the queue file after _write_request(requests)
queue_after_send_notes(f, notes, mode) ==
    write_request(f, send_notes_requests(notes, mode), TRUE)

\* fl_send_notes: the text before trigger_info
send_notes_summary(notes) ==
    LET shown == SubSeq(notes, 1, IF Len(notes) > 5 THEN 5 ELSE Len(notes))
        names == [i \in DOMAIN shown |->
                     midi_to_note_name(shown[i].midi) \o "@" \o ToString(Get(shown[i], "time", 0))]
        more == IF Len(notes) > 5 THEN ", ... (" \o ToString(Len(notes) - 5) \o " more)" ELSE ""
    IN  "Queued " \o ToString(Len(notes)) \o " note(s): " \o Join(names) \o more \o "."

\* fl_send_chord: request
chord_request(midi_notes) ==
    [action |-> "add_chord", time |-> ChordTime, duration |-> ChordDuration,
     notes |-> [i \in DOMAIN midi_notes |-> [midi |-> midi_notes[i], velocity |-> DefaultVelocity]]]

\* fl_send_chord: the text before trigger_info
send_chord_summary(midi_notes) ==
    "Queued chord [" \o Join([i \in DOMAIN midi_notes |-> midi_to_note_name(midi_notes[i])])
    \o "] at beat " \o ToString(ChordTime) \o ", duration " \o ChordDuration \o "."

\* the texts about the trigger
TriggeredInfo == " FL Studio triggered successfully."
WarningInfo(h) == " Warning: Could not trigger FL Studio. Press " \o keystroke(h) \o " manually."
UnsupportedInfo(h) ==
    " Auto-trigger not supported on " \o h.system \o ". Press the trigger key manually."

\* fl_send_notes: trigger_info
send_notes_trigger_info(h, auto_trigger, sent) ==
    IF ~auto_trigger THEN ""
    ELSE IF is_supported(h)
         THEN IF trigger_fl_studio(h, sent) THEN TriggeredInfo ELSE WarningInfo(h)
         ELSE UnsupportedInfo(h)

\* fl_send_chord: trigger_info
send_chord_trigger_info(h, auto_trigger, sent) ==
    IF auto_trigger /\ is_supported(h)
    THEN IF trigger_fl_studio(h, sent) THEN TriggeredInfo ELSE WarningInfo(h)
    ELSE ""

\* fl_delete_notes: trigger_info
delete_notes_trigger_info(h, auto_trigger, sent) ==
    IF auto_trigger /\ is_supported(h)
    THEN IF trigger_fl_studio(h, sent) THEN TriggeredInfo ELSE WarningInfo(h)
    ELSE ""

\* fl_clear_piano_roll: trigger_info
clear_piano_roll_trigger_info(h, auto_trigger, sent) ==
    IF auto_trigger /\ is_supported(h)
    THEN IF trigger_fl_studio(h, sent) THEN TriggeredInfo ELSE WarningInfo(h)
    ELSE ""

\* fl_trigger_script: the text returned
trigger_script_text(h, sent) ==
    IF ~is_supported(h) THEN "Error: Auto-trigger not supported on " \o h.system
    ELSE IF trigger_fl_studio(h, sent)
         THEN "FL Studio triggered successfully. Notes should now appear in the piano roll."
         ELSE "Failed to trigger FL Studio. Try pressing " \o keystroke(h) \o " manually."

\* what became of the trigger in a tool call that asked for it or not
outcome(h, auto_trigger, sent) ==
    IF ~auto_trigger THEN "none"
    ELSE IF ~is_supported(h) THEN "unsupported"
    ELSE IF trigger_fl_studio(h, sent) THEN "ok" ELSE "failed"

\* what a piano-roll tool returns: the text, and the part of it that is
\* trigger_info
ToolText(summary, trigger_info) ==
    [text |-> summary \o trigger_info, trigger_info |-> trigger_info]

(***************************************************************************)
(* State.                                                                  *)
(***************************************************************************)
VARIABLES
    instantiated,   \* the module-level _connection is not None
    conn,           \* the fields of the MIDIConnection instance
    command_file,   \* mcp_command.json
    response_file,  \* mcp_response.json
    midi_queue,     \* messages sent to the port and not yet seen by OnMidiMsg
    pc,             \* per caller: where its send_command call stands
    args,           \* per caller: action, params, timeout of the call
    elapsed,        \* per caller: time.time() - start_time, in poll intervals
    response,       \* per caller: the parsed response, before the cleanup
    result,         \* per caller: what the call returned or raised
    daw_writes,     \* responses execute_pending_command still has to write
    daw_open,       \* "closed", "open" (truncated by write_text, data not
                    \* written yet) or "orphaned" (unlinked while open)
    \* history variables, read by the properties only
    ncalls,         \* send_command calls started so far
    call_id,        \* per caller: number of its current call
    polled,         \* per caller: 1 once the current call has tested its loop
    stage,          \* per caller: steps the current call has completed
    seen,           \* per caller: what a poll of the current call found
    cmd_owner,      \* call whose command the command file holds (0: none)
    written,        \* calls whose command reached the command file
    daw_cmd,        \* call whose command the DAW side last read (0: none)
    landed,         \* the dict the DAW side wrote, while the file holds it
    resp_count,     \* per call: responses the DAW side wrote for its command
    trig_sent,      \* triggers sent to the port
    trig_handled,   \* triggers OnMidiMsg reacted to
    event_handled,  \* the last event OnMidiMsg got, and its handled flag
    write_calls,    \* calls of write_response
    landed_for,     \* call whose command landed answers (0: none)
    seen_for,       \* per caller: call whose command the response it read answers
    open_handles,   \* ports opened by mido.open_output and not closed yet
    \* the tools of the server
    tool_result,    \* what the last tool call returned
    memo_hit,       \* the last direct connect() or ensure_connected() call
                    \* found the port open and returned at once (history)
    request_file,   \* mcp_request.json, the piano-roll queue
    host,           \* the machine: platform.system() and the environment
    trigger_outcome,\* what became of the trigger in the last tool call
    hardware_dir,   \* the directory the server resolved
    script_dir,     \* the directory the controller script resolved
    queued,         \* entries handed to _write_request since the queue file
                    \* was last missing or cleared (history)
    foreign         \* the queue file was written by something else since
                    \* it was last missing or cleared (history)

conn_vars == <<instantiated, conn, open_handles>>
call_vars == <<pc, args, elapsed, response, result>>
daw_vars == <<daw_writes, daw_open>>
call_hist == <<ncalls, call_id, polled, stage, seen, seen_for>>
chan_hist == <<cmd_owner, written, daw_cmd, landed, landed_for, resp_count, trig_sent,
              trig_handled, event_handled, write_calls>>
piano_vars == <<request_file, host, trigger_outcome, hardware_dir, script_dir,
               queued, foreign>>
tool_vars == <<tool_result, memo_hit, piano_vars>>
vars == <<conn_vars, command_file, response_file, midi_queue, call_vars, daw_vars,
          call_hist, chan_hist, tool_vars>>

NoArgs == [action |-> "", params |-> NoParams, timeout |-> 0]

\* no event has reached OnMidiMsg yet
NoEvent == <<>>

\* values of seen
NotSeen == <<>>
SeenInvalid == <<"invalid">>
SeenValid(obj) == <<"valid", obj>>

InitOn(h) ==
    /\ instantiated = FALSE
    /\ conn = NewConn
    /\ command_file = Absent
    /\ response_file = Absent
    /\ midi_queue = <<>>
    /\ pc = [c \in Callers |-> "idle"]
    /\ args = [c \in Callers |-> NoArgs]
    /\ elapsed = [c \in Callers |-> 0]
    /\ response = [c \in Callers |-> EmptyDict]
    /\ result = [c \in Callers |-> NoResult]
    /\ daw_writes = <<>>
    /\ daw_open = "closed"
    /\ ncalls = 0
    /\ call_id = [c \in Callers |-> 0]
    /\ polled = [c \in Callers |-> 0]
    /\ stage = [c \in Callers |-> <<>>]
    /\ seen = [c \in Callers |-> NotSeen]
    /\ cmd_owner = 0
    /\ written = {}
    /\ daw_cmd = 0
    /\ landed = EmptyDict
    /\ resp_count = [i \in 1..MaxCalls |-> 0]
    /\ trig_sent = 0
    /\ trig_handled = 0
    /\ event_handled = NoEvent
    /\ write_calls = 0
    /\ landed_for = 0
    /\ seen_for = [c \in Callers |-> 0]
    /\ open_handles = 0
    /\ tool_result = NoResult
    /\ memo_hit = FALSE
    /\ request_file = Absent
    /\ host = h
    /\ trigger_outcome = "none"
    /\ hardware_dir = Unresolved
    /\ script_dir = Unresolved
    /\ queued = <<>>
    /\ foreign = FALSE

\* the exchange runs on a Mac
Init == InitOn([system |-> "Darwin", userprofile |-> None])

\* no send_command call is running
Quiet == \A c \in Callers : pc[c] = "idle"

(***************************************************************************)
(* Server side.                                                            *)
(***************************************************************************)
\* get_connection().send_command(action, params, timeout), up to and
\* including self.ensure_connected()
StartCall(c, action, params, timeout, env) ==
    /\ pc[c] = "idle"
    /\ ncalls < MaxCalls
    /\ instantiated' = TRUE
    /\ conn' = ensure_connected(get_connection(instantiated, conn), env)
    /\ open_handles' = open_handles + (IF opens_port(conn, env) THEN 1 ELSE 0)
    /\ tool_result' = NoResult
    /\ memo_hit' = FALSE
    /\ ncalls' = ncalls + 1
    /\ call_id' = [call_id EXCEPT ![c] = ncalls + 1]
    /\ args' = [args EXCEPT ![c] = [action |-> action, params |-> params, timeout |-> timeout]]
    /\ IF is_connected(conn')
       THEN pc' = [pc EXCEPT ![c] = "write"] /\ result' = result
       ELSE /\ pc' = [pc EXCEPT ![c] = "done"]
            /\ result' = [result EXCEPT ![c] = Raised(conn'.error)]
    /\ UNCHANGED <<command_file, response_file, midi_queue, elapsed, response, daw_vars,
                   polled, stage, seen, seen_for, chan_hist, piano_vars>>

\* self._command_file.write_text(...): the file cannot be opened
WriteCommandFails(c) ==
    /\ pc[c] = "write"
    /\ pc' = [pc EXCEPT ![c] = after_write_failed]
    /\ result' = [result EXCEPT ![c] = Returned(Failed(WriteFailedMsg))]
    /\ stage' = [stage EXCEPT ![c] = Append(@, "write_failed")]
    /\ UNCHANGED <<conn_vars, command_file, response_file, midi_queue, args, elapsed,
                   response, daw_vars, ncalls, call_id, polled, seen, seen_for, chan_hist, tool_vars>>

\* self._command_file.write_text(...): the file is opened and truncated
WriteCommandOpen(c) ==
    /\ pc[c] = "write"
    /\ command_file' = File(EmptyText)
    /\ cmd_owner' = 0
    /\ pc' = [pc EXCEPT ![c] = "write_data"]
    /\ UNCHANGED <<conn_vars, response_file, midi_queue, args, elapsed, response, result,
                   daw_vars, call_hist, written, daw_cmd, landed, landed_for, resp_count,
                   trig_sent, trig_handled, event_handled, write_calls, tool_vars>>

\* self._command_file.write_text(json.dumps(command, indent=2)): the data
WriteCommandData(c) ==
    /\ pc[c] = "write_data"
    /\ command_file' = File(dumps(command(args[c].action, args[c].params)))
    /\ cmd_owner' = call_id[c]
    /\ written' = written \cup {call_id[c]}
    /\ stage' = [stage EXCEPT ![c] = Append(@, "write")]
    /\ pc' = [pc EXCEPT ![c] = "clear"]
    /\ UNCHANGED <<conn_vars, response_file, midi_queue, args, elapsed, response, result,
                   daw_vars, ncalls, call_id, polled, seen, seen_for, daw_cmd, landed, landed_for, resp_count,
                   trig_sent, trig_handled, event_handled, write_calls, tool_vars>>

\* the response file and the DAW side's open handle after an unlink
Unlinked ==
    /\ response_file' = IF Exists(response_file) THEN unlink(response_file) ELSE response_file
    /\ daw_open' = IF Exists(response_file) /\ ~Exists(response_file') /\ daw_open = "open"
                   THEN "orphaned" ELSE daw_open
    /\ landed' = IF Exists(response_file') THEN landed ELSE EmptyDict
    /\ landed_for' = IF Exists(response_file') THEN landed_for ELSE 0

\* if self._response_file.exists(): self._response_file.unlink()
ClearResponse(c) ==
    /\ pc[c] = "clear"
    /\ Unlinked
    /\ stage' = [stage EXCEPT ![c] = Append(@, "clear")]
    /\ pc' = [pc EXCEPT ![c] = after_clear(Exists(response_file))]
    /\ UNCHANGED <<conn_vars, command_file, midi_queue, args, elapsed, response, result,
                   daw_writes, ncalls, call_id, polled, seen, seen_for, cmd_owner, written, daw_cmd,
                   resp_count, trig_sent, trig_handled, event_handled, write_calls, tool_vars>>

\* self._port.send(trigger_msg); sent = FALSE: it raised
SendTrigger(c, sent) ==
    /\ pc[c] = "trigger"
    /\ pc' = [pc EXCEPT ![c] = after_trigger(sent)]
    /\ IF sent
       THEN /\ midi_queue' = Append(midi_queue, trigger_msg)
            /\ trig_sent' = trig_sent + 1
            /\ stage' = [stage EXCEPT ![c] = Append(@, "trigger")]
            /\ result' = result
       ELSE /\ result' = [result EXCEPT ![c] = Returned(Failed(TriggerFailedMsg))]
            /\ stage' = [stage EXCEPT ![c] = Append(@, "trigger_failed")]
            /\ UNCHANGED <<midi_queue, trig_sent>>
    \* start_time = time.time()
    /\ elapsed' = [elapsed EXCEPT ![c] = 0]
    /\ UNCHANGED <<conn_vars, command_file, response_file, args, response, daw_vars,
                   ncalls, call_id, polled, seen, seen_for, cmd_owner, written, daw_cmd, landed, landed_for,
                   resp_count, trig_handled, event_handled, write_calls, tool_vars>>

\* the clock after a sleep that began at elapsed_time: one poll interval
\* later or more; times past the timeout are counted as the timeout
AfterSleep(elapsed_time, timeout) ==
    {later \in (elapsed_time + 1)..(MaxTimeout + 1) :
        later = elapsed_time + 1 \/ later <= timeout}

\* one turn of the while loop that finds no response file: time.sleep,
\* which lasts one poll interval or longer
PollSleep(c) ==
    /\ pc[c] = "poll"
    /\ PollContinues(elapsed[c], args[c].timeout)
    /\ ~Exists(response_file)
    /\ \E later \in AfterSleep(elapsed[c], args[c].timeout) :
           elapsed' = [elapsed EXCEPT ![c] = later]
    /\ polled' = [polled EXCEPT ![c] = 1]
    /\ UNCHANGED <<conn_vars, command_file, response_file, midi_queue, pc, args, response,
                   result, daw_vars, ncalls, call_id, stage, seen, seen_for, chan_hist, tool_vars>>

\* one turn of the while loop that finds the response file: read_text and
\* json.loads
PollRead(c) ==
    /\ pc[c] = "poll"
    /\ PollContinues(elapsed[c], args[c].timeout)
    /\ Exists(response_file)
    /\ pc' = [pc EXCEPT ![c] = after_read(IsJSON(response_file[1]))]
    /\ IF IsJSON(response_file[1])
       THEN /\ response' = [response EXCEPT ![c] = loads(response_file[1])]
            /\ seen' = [seen EXCEPT ![c] = SeenValid(landed)]
            /\ seen_for' = [seen_for EXCEPT ![c] = landed_for]
            /\ result' = result
       ELSE /\ result' = [result EXCEPT ![c] = Returned(invalid_response)]
            /\ seen' = [seen EXCEPT ![c] = SeenInvalid]
            /\ seen_for' = [seen_for EXCEPT ![c] = 0]
            /\ response' = response
    /\ polled' = [polled EXCEPT ![c] = 1]
    /\ UNCHANGED <<conn_vars, command_file, response_file, midi_queue, args, elapsed,
                   daw_vars, ncalls, call_id, stage, chan_hist, tool_vars>>

\* self._response_file.unlink(); return response
Cleanup(c) ==
    /\ pc[c] = "cleanup"
    /\ Unlinked
    /\ result' = [result EXCEPT ![c] = Returned(response[c])]
    /\ response' = [response EXCEPT ![c] = EmptyDict]
    /\ pc' = [pc EXCEPT ![c] = "done"]
    /\ UNCHANGED <<conn_vars, command_file, midi_queue, args, elapsed, daw_writes,
                   call_hist, cmd_owner, written, daw_cmd, resp_count,
                   trig_sent, trig_handled, event_handled, write_calls, tool_vars>>

\* the while condition is false: the timeout dict is returned
PollTimeout(c) ==
    /\ pc[c] = "poll"
    /\ ~PollContinues(elapsed[c], args[c].timeout)
    /\ result' = [result EXCEPT ![c] = Returned(timeout_response(args[c].timeout))]
    /\ polled' = [polled EXCEPT ![c] = 1]
    /\ pc' = [pc EXCEPT ![c] = "done"]
    /\ UNCHANGED <<conn_vars, command_file, response_file, midi_queue, args, elapsed,
                   response, daw_vars, ncalls, call_id, stage, seen, seen_for, chan_hist, tool_vars>>

\* the caller takes the result; it may call again
Return(c) ==
    /\ pc[c] = "done"
    /\ pc' = [pc EXCEPT ![c] = "idle"]
    /\ args' = [args EXCEPT ![c] = NoArgs]
    /\ elapsed' = [elapsed EXCEPT ![c] = 0]
    /\ result' = [result EXCEPT ![c] = NoResult]
    /\ polled' = [polled EXCEPT ![c] = 0]
    /\ stage' = [stage EXCEPT ![c] = <<>>]
    /\ seen' = [seen EXCEPT ![c] = NotSeen]
    /\ seen_for' = [seen_for EXCEPT ![c] = 0]
    /\ UNCHANGED <<conn_vars, command_file, response_file, midi_queue, response, daw_vars,
                   ncalls, call_id, chan_hist, tool_vars>>

\* reset_connection(): disconnect and drop the instance; the next
\* get_connection() builds a new one
ResetConnection ==
    /\ Quiet
    /\ instantiated
    /\ instantiated' = FALSE
    /\ conn' = NewConn
    /\ open_handles' = open_handles - (IF closes_port(conn) THEN 1 ELSE 0)
    /\ UNCHANGED <<command_file, response_file, midi_queue, call_vars, daw_vars,
                   call_hist, chan_hist, tool_vars>>

\* MIDIConnection.disconnect() on the instance
Disconnect ==
    /\ Quiet
    /\ instantiated
    /\ conn' = disconnect(conn)
    /\ open_handles' = open_handles - (IF closes_port(conn) THEN 1 ELSE 0)
    /\ UNCHANGED <<instantiated, command_file, response_file, midi_queue, call_vars,
                   daw_vars, call_hist, chan_hist, tool_vars>>

\* every variable of the command/response exchange
exchange_vars == <<command_file, response_file, midi_queue, call_vars, daw_vars,
                   call_hist, chan_hist>>

\* get_connection() by itself
GetConnection ==
    /\ Quiet
    /\ instantiated' = TRUE
    /\ conn' = get_connection(instantiated, conn)
    /\ tool_result' = <<"get_connection", is_connected(conn')>>
    /\ memo_hit' = FALSE
    /\ UNCHANGED <<open_handles, exchange_vars, piano_vars>>

\* get_connection().ensure_connected()
EnsureConnected(env) ==
    /\ Quiet
    /\ instantiated' = TRUE
    /\ conn' = ensure_connected(get_connection(instantiated, conn), env)
    /\ open_handles' = open_handles + (IF opens_port(conn, env) THEN 1 ELSE 0)
    /\ tool_result' = IF is_connected(conn') THEN <<"ensure_connected", None>>
                      ELSE Raised(conn'.error)
    /\ memo_hit' = is_connected(conn)
    /\ UNCHANGED <<exchange_vars, piano_vars>>

\* get_connection().connect()
Connect(env) ==
    /\ Quiet
    /\ instantiated' = TRUE
    /\ conn' = connect(get_connection(instantiated, conn), env)
    /\ open_handles' = open_handles + (IF opens_port(conn, env) THEN 1 ELSE 0)
    /\ tool_result' = <<"connect", is_connected(conn')>>
    /\ memo_hit' = is_connected(conn)
    /\ UNCHANGED <<exchange_vars, piano_vars>>

\* the tool fl_connect: reset_connection(), get_connection(), then the test
\* of is_connected
FlConnect ==
    /\ Quiet
    /\ instantiated' = TRUE
    /\ conn' = get_connection(FALSE, disconnect(conn))
    /\ open_handles' = open_handles - (IF instantiated /\ closes_port(conn) THEN 1 ELSE 0)
    /\ tool_result' = <<"fl_connect", IF is_connected(conn') THEN ConnectedMsg
                                      ELSE ConnectionFailedMsg(conn'.error)>>
    /\ memo_hit' = FALSE
    /\ UNCHANGED <<exchange_vars, piano_vars>>

\* the tool fl_connection_status: get_connection().get_status(), which
\* imports mido without a guard
FlConnectionStatus(mido_ok) ==
    /\ Quiet
    /\ instantiated' = TRUE
    /\ conn' = get_connection(instantiated, conn)
    /\ tool_result' = IF mido_ok THEN <<"fl_connection_status", get_status(conn')>>
                      ELSE <<"raise", [type |-> "ImportError", message |-> MidoMissingMsg]>>
    /\ memo_hit' = FALSE
    /\ UNCHANGED <<open_handles, exchange_vars, piano_vars>>

(***************************************************************************)
(* The piano-roll tools.                                                   *)
(***************************************************************************)
\* what the piano-roll tools leave alone
not_piano == <<conn_vars, exchange_vars, memo_hit>>

\* the tool fl_send_notes(notes, mode, auto_trigger)
FlSendNotes(notes, mode, auto_trigger, sent) ==
    /\ IF send_notes_error(notes) # None
       THEN /\ tool_result' = <<"fl_send_notes", ToolText(send_notes_error(notes), "")>>
            /\ trigger_outcome' = "none"
            /\ UNCHANGED <<request_file, queued>>
       ELSE /\ Len(existing_entries(request_file)) + Len(send_notes_requests(notes, mode))
                   <= MaxQueue
            /\ request_file' = queue_after_send_notes(request_file, notes, mode)
            /\ queued' = queued \o send_notes_requests(notes, mode)
            /\ trigger_outcome' = outcome(host, auto_trigger, sent)
            /\ tool_result' =
                  <<"fl_send_notes",
                    ToolText(send_notes_summary(with_defaults(notes)),
                             send_notes_trigger_info(host, auto_trigger, sent))>>
    /\ UNCHANGED <<not_piano, host, hardware_dir, script_dir, foreign>>

\* the tool fl_send_chord(midi_notes, time, duration, velocity, auto_trigger)
FlSendChord(midi_notes, auto_trigger, sent) ==
    /\ IF midi_notes = <<>>
       THEN /\ tool_result' = <<"fl_send_chord", ToolText("Error: No MIDI notes provided", "")>>
            /\ trigger_outcome' = "none"
            /\ UNCHANGED <<request_file, queued>>
       ELSE /\ Len(existing_entries(request_file)) < MaxQueue
            /\ request_file' = write_request(request_file, chord_request(midi_notes), FALSE)
            /\ queued' = Append(queued, chord_request(midi_notes))
            /\ trigger_outcome' = outcome(host, auto_trigger, sent)
            /\ tool_result' =
                  <<"fl_send_chord",
                    ToolText(send_chord_summary(midi_notes),
                             send_chord_trigger_info(host, auto_trigger, sent))>>
    /\ UNCHANGED <<not_piano, host, hardware_dir, script_dir, foreign>>

\* the tool fl_delete_notes(notes, auto_trigger)
FlDeleteNotes(notes, auto_trigger, sent) ==
    /\ IF notes = <<>>
       THEN /\ tool_result' =
                  <<"fl_delete_notes", ToolText("Error: No notes specified for deletion", "")>>
            /\ trigger_outcome' = "none"
            /\ UNCHANGED <<request_file, queued>>
       ELSE /\ Len(existing_entries(request_file)) < MaxQueue
            /\ request_file' =
                  write_request(request_file, [action |-> "delete_notes", notes |-> notes], FALSE)
            /\ queued' = Append(queued, [action |-> "delete_notes", notes |-> notes])
            /\ trigger_outcome' = outcome(host, auto_trigger, sent)
            /\ tool_result' =
                  <<"fl_delete_notes",
                    ToolText("Queued deletion of " \o ToString(Len(notes)) \o " note(s).",
                             delete_notes_trigger_info(host, auto_trigger, sent))>>
    /\ UNCHANGED <<not_piano, host, hardware_dir, script_dir, foreign>>

\* the tool fl_clear_piano_roll(auto_trigger)
FlClearPianoRoll(auto_trigger, sent) ==
    /\ Len(existing_entries(request_file)) < MaxQueue
    /\ request_file' = write_request(request_file, [action |-> "clear"], FALSE)
    /\ queued' = Append(queued, [action |-> "clear"])
    /\ trigger_outcome' = outcome(host, auto_trigger, sent)
    /\ tool_result' =
          <<"fl_clear_piano_roll",
            ToolText("Queued clear all notes.",
                     clear_piano_roll_trigger_info(host, auto_trigger, sent))>>
    /\ UNCHANGED <<not_piano, host, hardware_dir, script_dir, foreign>>

\* the tool fl_clear_request_queue()
FlClearRequestQueue ==
    /\ request_file' = clear_request_file(request_file)
    /\ queued' = <<>>
    /\ foreign' = FALSE
    /\ trigger_outcome' = "none"
    /\ tool_result' = <<"fl_clear_request_queue", ToolText("Request queue cleared.", "")>>
    /\ UNCHANGED <<not_piano, host, hardware_dir, script_dir>>

\* the tool fl_trigger_script()
FlTriggerScript(sent) ==
    /\ trigger_outcome' = outcome(host, TRUE, sent)
    /\ tool_result' = <<"fl_trigger_script", ToolText(trigger_script_text(host, sent), "")>>
    /\ UNCHANGED <<not_piano, request_file, host, hardware_dir, script_dir, queued, foreign>>

\* the user deletes the queue file by hand
ManualDelete ==
    /\ Exists(request_file)
    /\ request_file' = Absent
    /\ queued' = <<>>
    /\ foreign' = FALSE
    /\ UNCHANGED <<not_piano, tool_result, host, trigger_outcome, hardware_dir, script_dir>>

\* something else leaves a text in the queue file: one that does not
\* parse, one JSON object, or a JSON value of another kind
ForeignTexts == {CorruptText, OtherText, dumps([action |-> "clear"])}
ForeignWrite(text) ==
    /\ request_file # File(text)
    /\ request_file' = File(text)
    /\ queued' = <<>>
    /\ foreign' = TRUE
    /\ UNCHANGED <<not_piano, tool_result, host, trigger_outcome, hardware_dir, script_dir>>

\* MIDIConnection.__init__: self._hardware_dir = _get_fl_hardware_dir()
GetHardwareDir ==
    /\ hardware_dir = Unresolved
    /\ hardware_dir' = get_fl_hardware_dir(host)
    /\ UNCHANGED <<not_piano, tool_result, request_file, host, trigger_outcome, script_dir,
                   queued, foreign>>

\* the controller script is loaded: SCRIPT_DIR = _get_script_dir()
GetScriptDir ==
    /\ script_dir = Unresolved
    /\ script_dir' = get_script_dir(host)
    /\ UNCHANGED <<not_piano, tool_result, request_file, host, trigger_outcome, hardware_dir,
                   queued, foreign>>

(***************************************************************************)
(* DAW side.                                                               *)
(***************************************************************************)
\* OnMidiMsg(event) up to the call of write_response: the filter, then
\* execute_pending_command reads the command file and runs the handler
OnMidiMsg(handler_raises) ==
    /\ midi_queue # <<>>
    /\ daw_writes = <<>>
    /\ daw_open = "closed"
    /\ midi_queue' = Tail(midi_queue)
    /\ IF IsTrigger(Head(midi_queue))
       THEN /\ daw_writes' = execute_pending_command(command_file, handler_raises)
            /\ daw_cmd' = IF Exists(command_file) /\ IsJSON(command_file[1])
                          THEN cmd_owner ELSE 0
            /\ trig_handled' = trig_handled + 1
       ELSE UNCHANGED <<daw_writes, daw_cmd, trig_handled>>
    /\ event_handled' = <<[event |-> Head(midi_queue),
                           handled |-> IsTrigger(Head(midi_queue))]>>
    /\ UNCHANGED <<conn_vars, command_file, response_file, call_vars, daw_open,
                   call_hist, cmd_owner, written, landed, landed_for, resp_count, trig_sent, write_calls, tool_vars>>

\* write_response: RESPONSE_FILE.write_text raises, the error is printed
WriteResponseFails ==
    /\ daw_writes # <<>>
    /\ daw_open = "closed"
    /\ daw_writes' = Tail(daw_writes)
    /\ write_calls' = write_calls + 1
    /\ UNCHANGED <<conn_vars, command_file, response_file, midi_queue, call_vars,
                   daw_open, call_hist, cmd_owner, written, daw_cmd, landed, landed_for, resp_count,
                   trig_sent, trig_handled, event_handled, tool_vars>>

\* write_response: RESPONSE_FILE.write_text opens and truncates the file
WriteResponseOpen ==
    /\ daw_writes # <<>>
    /\ daw_open = "closed"
    /\ response_file' = File(EmptyText)
    /\ landed' = EmptyDict
    /\ landed_for' = 0
    /\ daw_open' = "open"
    /\ write_calls' = write_calls + 1
    /\ UNCHANGED <<conn_vars, command_file, midi_queue, call_vars, daw_writes,
                   call_hist, cmd_owner, written, daw_cmd, resp_count, trig_sent,
                   trig_handled, event_handled, tool_vars>>

\* write_response: the data reaches the file, unless the file was unlinked
\* while it was open (the data then goes to a file without a name)
WriteResponseData ==
    /\ daw_open \in {"open", "orphaned"}
    /\ IF daw_open = "open"
       THEN /\ response_file' = File(dumps(Head(daw_writes)))
            /\ landed' = Head(daw_writes)
            /\ landed_for' = daw_cmd
            /\ resp_count' = IF daw_cmd # 0
                             THEN [resp_count EXCEPT ![daw_cmd] = @ + 1] ELSE resp_count
       ELSE UNCHANGED <<response_file, landed, landed_for, resp_count>>
    /\ daw_writes' = Tail(daw_writes)
    /\ daw_open' = "closed"
    /\ UNCHANGED <<conn_vars, command_file, midi_queue, call_vars, call_hist,
                   cmd_owner, written, daw_cmd, trig_sent, trig_handled, event_handled, write_calls, tool_vars>>

(***************************************************************************)
(* Specifications.                                                         *)
(***************************************************************************)
\* the steps of a running send_command call of caller c
CallStep(c) ==
    \/ WriteCommandFails(c)
    \/ WriteCommandOpen(c)
    \/ WriteCommandData(c)
    \/ ClearResponse(c)
    \/ \E sent \in BOOLEAN : SendTrigger(c, sent)
    \/ PollSleep(c)
    \/ PollRead(c)
    \/ Cleanup(c)
    \/ PollTimeout(c)

DawStep ==
    \/ \E handler_raises \in BOOLEAN : OnMidiMsg(handler_raises)
    \/ WriteResponseFails
    \/ WriteResponseOpen
    \/ WriteResponseData

\* one caller: every send_command returns before the next one starts
Next ==
    \/ \E action \in Actions, params \in ParamsArgs, timeout \in Timeouts, env \in ConnectEnvs :
           StartCall(1, action, params, timeout, env)
    \/ CallStep(1)
    \/ Return(1)
    \/ ResetConnection
    \/ Disconnect
    \/ DawStep

Spec == Init /\ [][Next]_vars

\* the server thread keeps running once it is in a call
FairSpec == Spec /\ WF_vars(CallStep(1))

\* the connection tools and the connection API
ConnStep ==
    \/ GetConnection
    \/ \E env \in ConnectEnvs : EnsureConnected(env)
    \/ \E env \in ConnectEnvs : Connect(env)
    \/ FlConnect
    \/ \E mido_ok \in BOOLEAN : FlConnectionStatus(mido_ok)

\* the machine of the overlapping callers: one port, which opens
ConcEnvs == {[mido |-> TRUE, names_ok |-> TRUE, ports |-> <<"IAC Driver Bus 1">>,
              open_ok |-> TRUE]}
\* the timeout the overlapping callers pass, in poll intervals
ConcTimeouts == {1}

\* two callers whose send_command calls may overlap
ConcNext ==
    \/ \E c \in Callers, action \in Actions, params \in ParamsArgs, timeout \in ConcTimeouts,
          env \in ConcEnvs : StartCall(c, action, params, timeout, env)
    \/ \E c \in Callers : CallStep(c)
    \/ \E c \in Callers : Return(c)
    \/ DawStep

ConcSpec == Init /\ [][ConcNext]_vars

\* the piano-roll tools on any machine, the queue file and the two
\* directory lookups
PianoInit == \E h \in Hosts : InitOn(h)

PianoNext ==
    \/ \E notes \in NotesArgs, mode \in Modes, auto_trigger \in BOOLEAN, sent \in BOOLEAN :
           FlSendNotes(notes, mode, auto_trigger, sent)
    \/ \E midi_notes \in ChordArgs, auto_trigger \in BOOLEAN, sent \in BOOLEAN :
           FlSendChord(midi_notes, auto_trigger, sent)
    \/ \E notes \in DeleteArgs, auto_trigger \in BOOLEAN, sent \in BOOLEAN :
           FlDeleteNotes(notes, auto_trigger, sent)
    \/ \E auto_trigger \in BOOLEAN, sent \in BOOLEAN : FlClearPianoRoll(auto_trigger, sent)
    \/ FlClearRequestQueue
    \/ \E sent \in BOOLEAN : FlTriggerScript(sent)
    \/ ManualDelete
    \/ \E text \in ForeignTexts : ForeignWrite(text)
    \/ GetHardwareDir
    \/ GetScriptDir

PianoSpec == PianoInit /\ [][PianoNext]_vars

\* one caller on any machine: calls of one kind, resets and the connection
\* tools
ConnNext ==
    \/ \E action \in KnownActions, timeout \in ConcTimeouts, env \in ConnectEnvs :
           StartCall(1, action, NoParams, timeout, env)
    \/ CallStep(1)
    \/ Return(1)
    \/ ResetConnection
    \/ Disconnect
    \/ ConnStep
    \/ DawStep

ConnSpec == Init /\ [][ConnNext]_vars

(***************************************************************************)
(* Properties.                                                             *)
(***************************************************************************)
\* the last step the current call of caller c completed
LastStage(c) == IF stage[c] = <<>> THEN "" ELSE stage[c][Len(stage[c])]

\* C1: a call whose polls never found a response file returns success=false
\* with the timeout message, and the message carries the timeout value that
\* was passed (it is the message of no other timeout value).
C1_TimeoutReported ==
    \A c \in Callers :
        (pc[c] = "done" /\ polled[c] = 1 /\ seen[c] = NotSeen) =>
            /\ result[c] = Returned([success |-> FALSE,
                                     error |-> TimeoutMsg(args[c].timeout)])
            /\ \A t \in Timeouts \ {args[c].timeout} :
                   result[c][2].error # TimeoutMsg(t)

\* a call with the largest timeout polled, never saw a file and returned
C1_Witness ==
    \E c \in Callers :
        /\ pc[c] = "done" /\ polled[c] = 1 /\ seen[c] = NotSeen
        /\ args[c].timeout = MaxTimeout
        /\ elapsed[c] >= MaxTimeout
        /\ ~Exists(response_file)

\* C2: every send_command call that has started comes to its end, whatever
\* the DAW side does or does not do.
C2_Terminates == (pc[1] \notin {"idle", "done"}) ~> (pc[1] = "done")

\* a call timed out and the DAW side answered after that
C2_Witness ==
    /\ pc[1] = "done" /\ polled[1] = 1 /\ seen[1] = NotSeen
    /\ args[1].timeout > 0
    /\ Exists(response_file) /\ IsJSON(response_file[1])

C4_InvalidReturnsAtOnce ==
    \A c \in Callers :
        seen[c] = SeenInvalid =>
            /\ pc[c] = "done"
            /\ result[c] = Returned([success |-> FALSE, error |-> InvalidJSONMsg])

\* the call ended on the invalid content while time remained and the DAW
\* side was about to write the data of its response
C4_Witness ==
    \E c \in Callers :
        /\ seen[c] = SeenInvalid /\ pc[c] = "done"
        /\ elapsed[c] < args[c].timeout
        /\ daw_open = "open"

\* C5: no call of send_command raises; every failure is a returned dict.
C5_NeverRaises ==
    \A c \in Callers : result[c] = NoResult \/ result[c][1] = "return"

\* C6: when sending the trigger failed the call is over with success=false
\* and the trigger error, it has not polled, and the command file still
\* holds the command of this call.
C6_TriggerFailureReturned ==
    \A c \in Callers :
        LastStage(c) = "trigger_failed" =>
            /\ pc[c] = "done"
            /\ result[c] = Returned([success |-> FALSE, error |-> TriggerFailedMsg])
            /\ polled[c] = 0
            /\ Exists(command_file) /\ IsJSON(command_file[1])
            /\ cmd_owner = call_id[c]

\* a call ended on a failed trigger
C6_Witness ==
    \E c \in Callers :
        /\ LastStage(c) = "trigger_failed" /\ pc[c] = "done"
        /\ stage[c] = <<"write", "clear", "trigger_failed">>

RECURSIVE SumTo(_, _)
SumTo(f, n) == IF n = 0 THEN 0 ELSE f[n] + SumTo(f, n - 1)

\* the DAW side has nothing left to do
DawIdle == midi_queue = <<>> /\ daw_writes = <<>>
\* call i is over
CallOver(i) == \A c \in Callers : call_id[c] = i => pc[c] \in {"idle", "done"}

\* C8 as stated: the DAW side writes a response for every command that was
\* written exactly once, never twice and (once the call is over and the DAW
\* side has handled everything) never zero times.
C8_ExactlyOncePerCommand ==
    \A i \in written :
        /\ resp_count[i] <= 1
        /\ (CallOver(i) /\ DawIdle) => resp_count[i] = 1

\* C8 as amended: every trigger the DAW side reacts to makes it call
\* write_response exactly once, so it never writes more responses than
\* triggers were sent.
C8_OncePerTrigger ==
    /\ write_calls + Len(daw_writes) - (IF daw_open = "closed" THEN 0 ELSE 1) = trig_handled
    /\ trig_handled + Len(midi_queue) = trig_sent
    /\ SumTo(resp_count, MaxCalls) <= write_calls

\* the command of one call got two responses
C8_Witness == \E i \in written : resp_count[i] = 2

\* C9: for a command whose action is not in the dispatch table the response
\* handed to write_response is success=false with "Unknown action: <name>".
C9_UnknownActionFails ==
    [][(/\ trig_handled' = trig_handled + 1
        /\ Exists(command_file) /\ IsJSON(command_file[1])
        /\ command_file[1].json.action \notin KnownActions) =>
            daw_writes' = <<[success |-> FALSE,
                             error |-> "Unknown action: " \o command_file[1].json.action]>>]_vars

\* the last tool or API call was tool and returned value
ToolReturned(tool, value) ==
    /\ Len(tool_result) = 2
    /\ tool_result[1] = tool
    /\ tool_result[2] = value

\* a connect attempt that finds a port and can open it
Openable(env) == env.mido /\ env.names_ok /\ env.ports # <<>> /\ env.open_ok

\* C10: no step of send_command takes a connected connection out of the
\* connected state or changes the port it is bound to; only
\* reset_connection and disconnect do.
C10_ConnectionKept ==
    [][is_connected(conn) =>
          \/ ResetConnection
          \/ Disconnect
          \/ /\ is_connected(conn')
             /\ conn'.port = conn.port
             /\ conn'.port_name = conn.port_name]_vars

\* a call made on a connection that was already connected failed, and the
\* connection is still connected
C10_Witness ==
    \E c \in Callers :
        /\ pc[c] = "done" /\ call_id[c] >= 2
        /\ result[c] # NoResult /\ result[c][1] = "return"
        /\ result[c][2] \in {Failed(WriteFailedMsg), Failed(TriggerFailedMsg),
                             Failed(InvalidJSONMsg), timeout_response(args[c].timeout)}
        /\ is_connected(conn)

\* a step that is a connect attempt: send_command's ensure_connected, or
\* ensure_connected() or connect() called directly
ConnectAttempt ==
    \/ /\ ncalls' = ncalls + 1
       /\ \E c \in Callers : pc[c] = "idle" /\ pc'[c] \in {"write", "done"}
    \/ /\ Len(tool_result') = 2 /\ tool_result'[1] \in {"ensure_connected", "connect"}
       /\ UNCHANGED exchange_vars

\* C11: the connection is lazy.  After reset_connection() the status is
\* not connected, get_connection() and get_status() never change what the
\* status says, and the status turns to connected only in a step that is a
\* connect attempt (send_command, ensure_connected or connect).
C11_LazyConnection ==
    [][/\ ResetConnection => ~get_status(get_connection(instantiated', conn')).connected
       /\ \/ get_status(conn').connected = get_status(conn).connected
          \/ ~(GetConnection \/ \E mido_ok \in BOOLEAN : FlConnectionStatus(mido_ok))
       /\ \/ ~(~get_status(conn).connected /\ get_status(conn').connected)
          \/ ConnectAttempt]_vars

\* fl_connect has reset a connection that had carried a command and has
\* fetched the new instance, which is not connected
C11_Witness ==
    /\ written # {}
    /\ Len(tool_result) = 2 /\ tool_result[1] = "fl_connect"
    /\ instantiated
    /\ ~get_status(conn).connected

\* C12: when a port is listed and can be opened, fl_connect leaves the
\* connection connected and returns the success text.  fl_connect never asks
\* the machine, so the property is stated for a machine that can offer an
\* openable port.
C12_FlConnectConnects ==
    [][(FlConnect /\ \E env \in ConnectEnvs : Openable(env))
          => /\ is_connected(conn')
             /\ tool_result' = <<"fl_connect", ConnectedMsg>>]_vars

\* C13: opening is memoized.  While the connection is connected, no step
\* but reset_connection, disconnect and fl_connect (which resets) opens a
\* port, changes the port the connection holds or ends the connection.
C13_OpenedOnce ==
    [][is_connected(conn) =>
          \/ /\ is_connected(conn')
             /\ conn'.port = conn.port
             /\ conn'.port_name = conn.port_name
             /\ open_handles' = open_handles
          \/ ResetConnection
          \/ Disconnect
          \/ FlConnect]_vars

\* connect() or ensure_connected() was called on a connected connection,
\* which stayed connected with one port open
C13_Witness ==
    /\ memo_hit
    /\ is_connected(conn)
    /\ open_handles = 1

AnswersFor(a) ==
    LET text == [json |-> [action |-> a.action,
                           params |-> IF a.params = NoParams THEN EmptyDict ELSE a.params]]
    IN  {pending_response(File(text), handler_raises) : handler_raises \in BOOLEAN}

\* C15: with overlapping calls a response belongs to the command that was
\* in the command file when the trigger was handled, not to the call that
\* reads it: whatever call reads a response, the response is the DAW
\* side's answer to the command of the call the response was built for.
C15_AnswerFollowsCommandFile ==
    \A c \in Callers, d \in Callers :
        (/\ pc[c] \in {"cleanup", "done"}
         /\ seen[c] # NotSeen /\ seen[c] # SeenInvalid
         /\ seen_for[c] # 0 /\ seen_for[c] = call_id[d]
         /\ pc[d] # "idle")
            => seen[c][2] \in AnswersFor(args[d])

\* both calls wrote their command; the command of c was overwritten by
\* that of d before the DAW side read the file (it read only once, and read
\* the command of d); c returned the answer to the command of d, which is
\* no answer to its own; d is still waiting
C15_Witness ==
    \E c \in Callers, d \in Callers :
        /\ c # d
        /\ pc[c] = "done" /\ pc[d] = "poll"
        /\ {call_id[c], call_id[d]} \subseteq written
        /\ cmd_owner = call_id[d]
        /\ trig_handled = 1 /\ daw_cmd = call_id[d]
        /\ seen_for[c] = call_id[d]
        /\ result[c] = Returned(seen[c][2])
        /\ result[c][2] \notin AnswersFor(args[c])

\* C16: the queue file holds the entries handed to _write_request since it
\* was last missing or cleared, once each and in call order; nothing else
\* having written it, it is missing exactly when no entry was handed over.
C16_QueueInCallOrder ==
    ~foreign =>
        IF queued = <<>> THEN request_file = Absent
        ELSE request_file = File(dump_list(queued))

\* three calls with one object each, the first on a missing file
C16_Witness ==
    /\ ~foreign
    /\ queued = <<[action |-> "clear"], chord_request(<<60, 64>>),
                  [action |-> "delete_notes", notes |-> <<[midi |-> 60, time |-> 0]>>]>>
    /\ request_file = File(dump_list(queued))

\* a step in which _write_request was called
WriteRequestStep == Len(queued') > Len(queued)
\* the entries that call was given
Added == SubSeq(queued', Len(queued) + 1, Len(queued'))

\* C17: a _write_request that finds the file missing, unparseable or not
\* holding a list or an object writes a queue of just the entries it was
\* given; in every case the entries it was given end the queue, each an
\* entry of its own, in the order of the argument.
C17_EmptyQueueWhenUnreadable ==
    [][WriteRequestStep =>
          /\ Exists(request_file') /\ IsListText(request_file'[1])
          /\ LET entries == request_file'[1].json_list
             IN  /\ Len(entries) >= Len(Added)
                 /\ SubSeq(entries, Len(entries) - Len(Added) + 1, Len(entries)) = Added
                 /\ (~Exists(request_file) \/ request_file[1] \in {CorruptText, OtherText})
                        => entries = Added]_vars

\* fl_send_notes in replace mode found a file that does not parse and left
\* a queue of its two entries
C17_Witness ==
    /\ foreign
    /\ Len(tool_result) = 2 /\ tool_result[1] = "fl_send_notes"
    /\ Len(queued) = 2
    /\ queued[1] = [action |-> "clear"] /\ queued[2].action = "add_notes"
    /\ request_file = File(dump_list(queued))

\* the file holds a JSON array
WellFormed(f) == Exists(f) /\ IsListText(f[1])
\* a begins b
IsPrefix(a, b) == Len(a) <= Len(b) /\ SubSeq(b, 1, Len(a)) = a

\* C18: no tool but fl_clear_request_queue removes or moves an entry of a
\* well-formed queue file, whether or not it triggers.
C18_ToolsOnlyAppend ==
    [][WellFormed(request_file) =>
          \/ /\ WellFormed(request_file')
             /\ IsPrefix(request_file[1].json_list, request_file'[1].json_list)
          \/ FlClearRequestQueue
          \/ ManualDelete
          \/ \E text \in ForeignTexts : ForeignWrite(text)]_vars

\* fl_send_notes in replace mode triggered FL Studio, and the entry that
\* was in the queue is still its first
C18_Witness ==
    /\ trigger_outcome = "ok"
    /\ Len(tool_result) = 2 /\ tool_result[1] = "fl_send_notes"
    /\ WellFormed(request_file)
    /\ Len(request_file[1].json_list) = 3
    /\ request_file[1].json_list[1].action = "delete_notes"
    /\ request_file[1].json_list[2] = [action |-> "clear"]
    /\ request_file[1].json_list[3].action = "add_notes"

\* the tools that queue a request and take auto_trigger
QueueTools == {"fl_send_notes", "fl_send_chord", "fl_delete_notes", "fl_clear_piano_roll"}

\* C19: a queueing tool called with auto_trigger on a machine without a
\* trigger strategy says in its result that auto-trigger is not supported.
C19_UnsupportedIsTold ==
    (/\ Len(tool_result) = 2 /\ tool_result[1] \in QueueTools
     /\ trigger_outcome = "unsupported")
        => tool_result[2].trigger_info = UnsupportedInfo(host)

\* C20: on every machine the server and the controller script resolve the
\* same directory.
C20_SameDirectory ==
    (hardware_dir # Unresolved /\ script_dir # Unresolved) => hardware_dir = script_dir

C22_ResponseOfSameCall ==
    \A c \in Callers :
        (/\ pc[c] = "done"
         /\ seen[c] # NotSeen /\ seen[c] # SeenInvalid
         /\ seen_for[c] # 0) => seen_for[c] = call_id[c]

\* C23: a call that found the response file at a poll has deleted it by the
\* time it returns, whether or not the content parsed.
C23_ReadThenDeleted ==
    [][\A c \in Callers :
        (pc[c] # "done" /\ pc'[c] = "done" /\ seen'[c] # NotSeen) =>
            ~Exists(response_file')]_vars

\* C24: when the command file cannot be written, send_command returns at
\* once a failure whose error names the command-file write; the step sends
\* no trigger, neither deletes nor reads the response file, and leaves the
\* connection as it was.
C24_WriteFailureReturnsAtOnce ==
    [][\A c \in Callers :
        (pc[c] = "write" /\ stage'[c] = Append(stage[c], "write_failed")) =>
            /\ pc'[c] = "done"
            /\ result'[c] = Returned(Failed(WriteFailedMsg))
            /\ stage'[c] = <<"write_failed">>
            /\ polled'[c] = 0 /\ seen'[c] = NotSeen
            /\ UNCHANGED <<conn_vars, response_file, midi_queue, trig_sent>>]_vars

\* the second call could not write its command while a late response of the
\* first one is in the response file
C24_Witness ==
    /\ pc[1] = "done"
    /\ stage[1] = <<"write_failed">>
    /\ result[1] = Returned(Failed(WriteFailedMsg))
    /\ call_id[1] = 2
    /\ Exists(response_file)
    /\ is_connected(conn)

(***************************************************************************)
(* The controller script among other MIDI traffic.                         *)
(***************************************************************************)
MaxMidi == 1

\* events FL Studio hands to OnMidiMsg that the server did not send: a
\* note-on of note 127 with velocity 0 and with velocity 1, a note-on of
\* another note, a note-off (0x80) and a control change (0xB0)
ForeignEvents ==
    { [midiId |-> NOTE_ON, data1 |-> TRIGGER_NOTE, data2 |-> 0],
      [midiId |-> NOTE_ON, data1 |-> TRIGGER_NOTE, data2 |-> 1],
      [midiId |-> NOTE_ON, data1 |-> 60, data2 |-> 100],
      [midiId |-> 128, data1 |-> TRIGGER_NOTE, data2 |-> 64],
      [midiId |-> 176, data1 |-> TRIGGER_NOTE, data2 |-> 127] }

\* another sender's message arrives at the port the script listens on, while
\* fewer than MaxMidi messages wait; at most MaxMidi of them set off a command
ForeignMidi(event) ==
    /\ Len(midi_queue) < MaxMidi
    /\ IsTrigger(event) => trig_handled + Len(SelectSeq(midi_queue, IsTrigger)) < MaxMidi
    /\ midi_queue' = Append(midi_queue, event)
    /\ UNCHANGED <<conn_vars, command_file, response_file, call_vars, daw_vars,
                   call_hist, chan_hist, tool_vars>>

MidiNext ==
    \/ \E action \in KnownActions, timeout \in ConcTimeouts, env \in ConcEnvs :
           StartCall(1, action, NoParams, timeout, env)
    \/ CallStep(1)
    \/ Return(1)
    \/ DawStep
    \/ \E event \in ForeignEvents : ForeignMidi(event)

MidiSpec == Init /\ [][MidiNext]_vars

\* C25: OnMidiMsg runs execute_pending_command (one response is handed to
\* write_response) and marks the event handled exactly when the event is a
\* note-on (0x90) of note 127 with nonzero velocity; for any other event it
\* writes nothing and leaves the event unhandled.  Every message the server
\* sends as a trigger passes this filter.
C25_TriggerFilter ==
    [][/\ (midi_queue # <<>> /\ midi_queue' = Tail(midi_queue)) =>
            LET event == Head(midi_queue)
                passes == event.midiId = 144 /\ event.data1 = 127 /\ event.data2 # 0
            IN  /\ event_handled' = <<[event |-> event, handled |-> passes]>>
                /\ IF passes
                   THEN Len(daw_writes') = 1 /\ trig_handled' = trig_handled + 1
                   ELSE UNCHANGED <<daw_writes, response_file, write_calls, trig_handled>>
       /\ (trig_sent' = trig_sent + 1) =>
            LET m == midi_queue'[Len(midi_queue')]
            IN  m.midiId = 144 /\ m.data1 = 127 /\ m.data2 # 0]_vars

\* a note-on of note 127 with velocity 0 went through OnMidiMsg unhandled
\* after a trigger of the server had been handled
C25_Witness ==
    /\ event_handled = <<[event |-> [midiId |-> NOTE_ON, data1 |-> TRIGGER_NOTE, data2 |-> 0],
                          handled |-> FALSE]>>
    /\ trig_handled > 0
    /\ trig_sent > 0

\* C26: every response execute_pending_command hands to write_response is
\* either a failure with an error text, or a success that carries no error
\* and comes from a readable command whose action has a handler; a missing
\* or unparsable command file always gives the failure.
C26_SuccessOnlyWhenExecuted ==
    [][(trig_handled' = trig_handled + 1) =>
        LET r == daw_writes'[1]
            readable == Exists(command_file) /\ IsJSON(command_file[1])
        IN  /\ ~readable => ~r.success
            /\ ~r.success => ("error" \in DOMAIN r /\ r.error # None)
            /\ r.success =>
                   /\ readable
                   /\ Get(loads(command_file[1]), "action", "") \in KnownActions
                   /\ "error" \notin DOMAIN r]_vars

\* every note has the two fields fl_send_notes insists on
Accepted(notes) ==
    /\ notes # <<>>
    /\ \A i \in DOMAIN notes : {"midi", "duration"} \subseteq DOMAIN notes[i]

\* C27: an accepted fl_send_notes call rewrites the queue file once: in mode
\* "replace" the file then holds the entries it held, a clear request and
\* the add_notes request, in this order; in any other mode the entries it
\* held and the add_notes request.
C27_ReplaceClearsFirst ==
    [][\A notes \in NotesArgs, mode \in Modes :
        (/\ Accepted(notes)
         /\ \E auto_trigger \in BOOLEAN, sent \in BOOLEAN :
                FlSendNotes(notes, mode, auto_trigger, sent)) =>
            LET before == existing_entries(request_file)
                n == Len(before)
            IN  /\ WellFormed(request_file')
                /\ IsPrefix(before, request_file'[1].json_list)
                /\ LET after == request_file'[1].json_list
                   IN  IF mode = "replace"
                       THEN /\ Len(after) = n + 2
                            /\ after[n + 1] = [action |-> "clear"]
                            /\ after[n + 2].action = "add_notes"
                            /\ Len(after[n + 2].notes) = Len(notes)
                       ELSE /\ Len(after) = n + 1
                            /\ after[n + 1].action = "add_notes"
                            /\ Len(after[n + 1].notes) = Len(notes)]_vars

\* fl_send_notes in replace mode was called with a chord waiting in the
\* queue: the chord, the clear and the notes are queued in this order
C27_Witness ==
    /\ Len(tool_result) = 2 /\ tool_result[1] = "fl_send_notes"
    /\ WellFormed(request_file)
    /\ Len(request_file[1].json_list) = 3
    /\ request_file[1].json_list[1].action = "add_chord"
    /\ request_file[1].json_list[2] = [action |-> "clear"]
    /\ request_file[1].json_list[3].action = "add_notes"

\* the texts the validations of the piano-roll tools return
ValidationErrors ==
    {"Error: No notes provided", "Error: No MIDI notes provided",
     "Error: No notes specified for deletion"}
    \cup {"Error: Note " \o ToString(i) \o " missing '" \o field \o "' field" :
              i \in 0..1, field \in {"midi", "duration"}}

\* a call validation rejects
RejectedCall ==
    \/ \E notes \in NotesArgs, mode \in Modes, auto_trigger \in BOOLEAN, sent \in BOOLEAN :
           ~Accepted(notes) /\ FlSendNotes(notes, mode, auto_trigger, sent)
    \/ \E auto_trigger \in BOOLEAN, sent \in BOOLEAN : FlSendChord(<<>>, auto_trigger, sent)
    \/ \E auto_trigger \in BOOLEAN, sent \in BOOLEAN : FlDeleteNotes(<<>>, auto_trigger, sent)

\* C28: a piano-roll call that validation rejects returns an error text and
\* nothing else, leaves the request file as it was and triggers nothing.
C28_RejectedCallChangesNothing ==
    [][RejectedCall =>
          /\ request_file' = request_file
          /\ trigger_outcome' = "none"
          /\ tool_result'[2].text \in ValidationErrors
          /\ tool_result'[2].trigger_info = ""]_vars

\* fl_send_notes refused a list whose second note has no 'midi' while two
\* requests were waiting in the queue file
C28_Witness ==
    /\ tool_result = <<"fl_send_notes", ToolText("Error: Note 1 missing 'midi' field", "")>>
    /\ trigger_outcome = "none"
    /\ WellFormed(request_file)
    /\ Len(request_file[1].json_list) = 2

\* the port the order of preference names: the first IAC port, else the
\* first loopMIDI or FL port, else the first port
PreferredPort(ports) ==
    LET iac == {i \in DOMAIN ports : HasIAC(ports[i])}
        loop == {i \in DOMAIN ports : HasLoopOrFL(ports[i])}
    IN  IF iac # {} THEN ports[CHOOSE i \in iac : \A j \in iac : i <= j]
        ELSE IF loop # {} THEN ports[CHOOSE i \in loop : \A j \in loop : i <= j]
        ELSE ports[1]

\* C29: a connect that binds a port binds an IAC port when the machine lists
\* one, whatever its position; a loopMIDI or FL port only when there is no
\* IAC port, and the first port only when no port matches.
C29_IACPreferred ==
    [][(~is_connected(conn) /\ is_connected(conn')) =>
          \A env \in ConnectEnvs :
              conn' = connect(get_connection(instantiated, conn), env) =>
                  conn'.port_name = PreferredPort(env.ports)]_vars

\* C30: the connected flag of the connection is set exactly when it holds a
\* port, and a connected connection shows no error.
C30_FlagMatchesHandle ==
    /\ conn.connected <=> conn.port # None
    /\ is_connected(conn) => conn.error = None

\* connect() opened a port on a connection that had carried a command and
\* had been disconnected since
C30_Witness ==
    /\ written # {}
    /\ tool_result = <<"connect", TRUE>>
    /\ ~memo_hit
    /\ conn.connected /\ conn.port # None /\ conn.error = None

====
